---------------------------- MODULE Spec2Model ----------------------------
(***************************************************************************)
(* fin-track (Django): ledger balances, warehouse stock and per-currency   *)
(* transaction statistics, modelled from track/views.py and                *)
(* track/models.py.                                                        *)
(*                                                                         *)
(* Every request handler is one atomic action (one request at a time).     *)
(* The persistent store is the state.  `log' keeps the record of the most  *)
(* recent request (handler, request body, response status, the touched     *)
(* aggregate before the request) so that properties of a request can be    *)
(* stated on the state it leaves.                                          *)
(*                                                                         *)
(* Decimal values are integers counting units of 0.005 (half a cent): a    *)
(* request may carry a decimal with three places, while a                  *)
(* DecimalField(decimal_places=2) column holds an even count only.         *)
(***************************************************************************)
EXTENDS Integers, FiniteSets, Sequences, TLC

VARIABLES
    backend,          \* database backend of the deployment (fixes the rounding of a saved decimal)
    methods,          \* PaymentMethod ids
    transactions,     \* Transaction rows
    nextMethodId, nextTransactionId,
    employees,        \* Employee ids
    entries,          \* MonthlyEntry rows
    products,         \* MonthlyProduct rows
    payments,         \* MonthlyPayment rows
    nextEmployeeId, nextEntryId, nextProductId, nextPaymentId,
    items,            \* WarehouseItem rows: id -> [quantity, quantity_kg]
    movements,        \* WarehouseMovement rows
    nextItemId, nextMovementId,
    users,            \* auth User rows
    nextUserId,
    inflight,         \* requests in progress: worker -> position and local variables
    log               \* the record of the most recent request

txnVars == <<methods, transactions, nextMethodId, nextTransactionId>>
ledgerVars == <<employees, entries, products, payments,
               nextEmployeeId, nextEntryId, nextProductId, nextPaymentId>>
warehouseVars == <<items, movements, nextItemId, nextMovementId>>
userVars == <<users, nextUserId>>
vars == <<backend, txnVars, ledgerVars, warehouseVars, userVars, inflight, log>>

-----------------------------------------------------------------------------
(* Bounds of the model *)

MaxMovements == 2      \* WarehouseMovement ids handed out in a run
MaxProducts == 2       \* MonthlyProduct ids handed out in a run
MaxTransactions == 2   \* Transaction ids handed out in a run
MaxPayments == 1       \* MonthlyPayment ids handed out in a run
MaxWrites == 2         \* add requests started in a run, where requests overlap
MaxRows == 3           \* rows created in a run over all tables, where the whole site is run

Max(a, b) == IF a >= b THEN a ELSE b

-----------------------------------------------------------------------------
(* Saving a Decimal into a DecimalField(max_digits=12, decimal_places=2)   *)
(* column rounds it to two places.  sqlite/mysql/oracle: Django quantizes  *)
(* with the decimal context's ROUND_HALF_EVEN before the value reaches     *)
(* the database; postgresql: numeric(12,2) rounds ties away from zero.     *)
(* The values of the model stay far below max_digits.                      *)

Backends == {"sqlite", "postgresql"}

Quantize(x) ==
    IF x % 2 = 0 THEN x
    ELSE IF backend = "postgresql"
         THEN (IF x > 0 THEN x + 1 ELSE x - 1)
         ELSE (IF ((x - 1) \div 2) % 2 = 0 THEN x - 1 ELSE x + 1)

\* PositiveIntegerField: the column carries CHECK (value >= 0); a write
\* of a negative value raises IntegrityError
PositiveIntegerOk(n) == n >= 0

-----------------------------------------------------------------------------
(* Request log *)

NoRow == [none |-> TRUE]

\* op: the handler; status: the HTTP status of its response; id: the row
\* created or deleted; req: the request body (of a delete: the row deleted);
\* pre: the touched aggregate (item, entry) as it was before the request;
\* undo: for a successful delete that directly follows the request which
\* created the deleted row, the record of that request.
\* A failed request logs its handler and status only.  The record of a
\* StatsAPIView query carries the JSON body of the response as well.
LogRecord(op, status, id, req, pre, undo) ==
    [op |-> op, status |-> status, id |-> id, req |-> req, pre |-> pre, undo |-> undo]

Failed(op, status) == LogRecord(op, status, 0, NoRow, NoRow, NoRow)

NoRequest == Failed("", 0)

\* the record of a page or a GET endpoint: body is what it hands back
ViewRecord(op, status, req, pre, body) ==
    [op |-> op, status |-> status, id |-> 0, req |-> req,
     pre |-> pre, undo |-> NoRow, body |-> body]

\* two requests can be in progress at a time
Workers == {1, 2}
Idle == [op |-> "", pc |-> ""]

StatsRecord(query, result) ==
    [op |-> "Stats", status |-> 200, id |-> 0, req |-> query,
     pre |-> NoRow, undo |-> NoRow, body |-> result]


-----------------------------------------------------------------------------
(* Transactions and their statistics *)

Currencies == {"uzs", "usd", "afn"}
MethodIds == {1}

\* request bodies of CreateTransactionAPIView: amount in whole units; the
\* last two are refused by the database (negative amount, absent method)
TransactionBodies ==
    {[type |-> "income",   currency |-> "uzs", amount |-> 3, method |-> 1, date |-> 1],
     [type |-> "expense",  currency |-> "uzs", amount |-> 1, method |-> 1, date |-> 2],
     [type |-> "income",   currency |-> "usd", amount |-> 2, method |-> 1, date |-> 2],
     [type |-> "expense",  currency |-> "afn", amount |-> 4, method |-> 1, date |-> 1],
     [type |-> "income",   currency |-> "eur", amount |-> 5, method |-> 1, date |-> 2],
     [type |-> "transfer", currency |-> "usd", amount |-> 6, method |-> 1, date |-> 1],
     [type |-> "income",   currency |-> "usd", amount |-> -1, method |-> 1, date |-> 1],
     [type |-> "income",   currency |-> "usd", amount |-> 2, method |-> 2, date |-> 1]}

\* request bodies of TransactionDetailAPIView.post: a field that is absent
\* from the body is absent from the record
TransactionUpdates ==
    {[type |-> "expense", amount |-> 7, date |-> 1, method |-> 1, currency |-> "usd"],
     [type |-> "transfer", amount |-> 6, date |-> 1, currency |-> "eur"],
     [amount |-> -1],
     [method |-> 2]}

\* the query string of StatsAPIView: "" and 0 stand for an absent parameter
StatsQueries ==
    {[type |-> ty, method |-> m, date_from |-> d[1], date_to |-> d[2], currency |-> c] :
        ty \in {"", "expense"}, m \in {0, 2},
        d \in {<<0, 0>>, <<2, 0>>, <<0, 1>>, <<1, 1>>},
        c \in {"", "uzs", "usd", "eur"}}

\* data.get(key, default)
Get(data, key, default) == IF key \in DOMAIN data THEN data[key] ELSE default

\* PaymentMethodAdmin: payment methods are added on the admin site
PaymentMethodAdmin ==
    /\ nextMethodId \in MethodIds
    /\ methods' = methods \cup {nextMethodId}
    /\ nextMethodId' = nextMethodId + 1
    /\ log' = LogRecord("AddMethod", 200, nextMethodId, NoRow, NoRow, NoRow)
    /\ UNCHANGED <<backend, userVars, inflight, transactions, nextTransactionId, ledgerVars, warehouseVars>>

\* check_staff_permission: 0 stands for None (no refusal)
no_permission_check(staff) == 0

check_staff_permission(staff) == IF ~staff THEN 403 ELSE 0

\* Transaction.objects.create / transaction.save(): amount is a
\* PositiveIntegerField, method a foreign key; type is a CharField whose
\* choices are not checked by save()
TransactionRowOk(t) == PositiveIntegerOk(t.amount) /\ t.method \in methods

\* CreateTransactionAPIView.post
CreatedTransaction(id, data) ==
    [id |-> id, type |-> data.type, amount |-> data.amount, date |-> data.date,
     method |-> data.method,
     currency |-> LET currency == Get(data, "currency", "uzs")
                  IN  IF currency \notin {"uzs", "usd", "afn"} THEN "uzs" ELSE currency]

CreateTransactionAPIView(staff, malformed, data) ==
    LET t == CreatedTransaction(nextTransactionId, data)
        status == IF check_staff_permission(staff) # 0 THEN 403
                  ELSE IF malformed THEN 400
                  ELSE IF ~TransactionRowOk(t) THEN 400
                  ELSE 200
    IN  /\ status = 200 => nextTransactionId <= MaxTransactions
        /\ IF status = 200
           THEN /\ transactions' = transactions \cup {t}
                /\ nextTransactionId' = nextTransactionId + 1
                /\ log' = LogRecord("CreateTransaction", 200, t.id, data, NoRow, NoRow)
           ELSE /\ UNCHANGED <<transactions, nextTransactionId>>
                /\ log' = Failed("CreateTransaction", status)
        /\ UNCHANGED <<backend, userVars, inflight, methods, nextMethodId, ledgerVars, warehouseVars>>

\* TransactionDetailAPIView.post
UpdatedTransaction(t, data) ==
    [id |-> t.id,
     type |-> Get(data, "type", t.type),
     amount |-> Get(data, "amount", t.amount),
     date |-> Get(data, "date", t.date),
     method |-> Get(data, "method", t.method),
     currency |-> IF Get(data, "currency", "") \in {"uzs", "usd", "afn"}
                  THEN data.currency ELSE t.currency]

TransactionDetailAPIView(staff, malformed, transaction_id, data) ==
    LET found == \E t \in transactions : t.id = transaction_id
        old == CHOOSE t \in transactions : t.id = transaction_id
        status == IF check_staff_permission(staff) # 0 THEN 403
                  ELSE IF malformed THEN 400
                  ELSE IF ~found THEN 404
                  ELSE IF ~TransactionRowOk(UpdatedTransaction(old, data)) THEN 400
                  ELSE 200
    IN  /\ IF status = 200
           THEN /\ transactions' = (transactions \ {old}) \cup {UpdatedTransaction(old, data)}
                /\ log' = LogRecord("UpdateTransaction", 200, transaction_id, data, old, NoRow)
           ELSE /\ UNCHANGED transactions
                /\ log' = Failed("UpdateTransaction", status)
        /\ UNCHANGED <<backend, userVars, inflight, methods, nextMethodId, nextTransactionId, ledgerVars, warehouseVars>>

\* DeleteTransactionAPIView.post
DeleteTransactionAPIView(staff, transaction_id) ==
    LET found == \E t \in transactions : t.id = transaction_id
        old == CHOOSE t \in transactions : t.id = transaction_id
        status == IF check_staff_permission(staff) # 0 THEN 403
                  ELSE IF ~found THEN 404
                  ELSE 200
    IN  /\ IF status = 200
           THEN /\ transactions' = transactions \ {old}
                /\ log' = LogRecord("DeleteTransaction", 200, transaction_id, old, NoRow, NoRow)
           ELSE /\ UNCHANGED transactions
                /\ log' = Failed("DeleteTransaction", status)
        /\ UNCHANGED <<backend, userVars, inflight, methods, nextMethodId, nextTransactionId, ledgerVars, warehouseVars>>

\* aggregate(total=Coalesce(Sum('amount'), 0)): SUM over no row is NULL,
\* written {} here; a sum n is written {n}
RECURSIVE Total(_)
Total(S) ==
    IF S = {} THEN 0
    ELSE LET t == CHOOSE t \in S : TRUE IN t.amount + Total(S \ {t})

Sum(qs) == IF qs = {} THEN {} ELSE {Total(qs)}

Coalesce(v, default) == IF v = {} THEN default ELSE CHOOSE n \in v : TRUE

\* StatsAPIView.get, lines 110-134: the queryset after the filters
FilteredNoCurrency(q) ==
    LET byType   == IF q.type # "" THEN {t \in transactions : t.type = q.type}
                    ELSE transactions
        byMethod == IF q.method # 0 THEN {t \in byType : t.method = q.method} ELSE byType
        byFrom   == IF q.date_from # 0 THEN {t \in byMethod : t.date >= q.date_from}
                    ELSE byMethod
    IN  IF q.date_to # 0 THEN {t \in byFrom : t.date <= q.date_to} ELSE byFrom

Filtered(q) ==
    LET byType   == IF q.type # "" THEN {t \in transactions : t.type = q.type}
                    ELSE transactions
        byMethod == IF q.method # 0 THEN {t \in byType : t.method = q.method} ELSE byType
        byFrom   == IF q.date_from # 0 THEN {t \in byMethod : t.date >= q.date_from}
                    ELSE byMethod
        byTo     == IF q.date_to # 0 THEN {t \in byFrom : t.date <= q.date_to} ELSE byFrom
    IN  IF q.currency # "" /\ q.currency \in {"uzs", "usd", "afn"}
        THEN {t \in byTo : t.currency = q.currency}
        ELSE byTo

\* StatsAPIView.get, lines 138-147: one currency of the result
StatsOfAllTypes(qs) ==
    LET inc == Coalesce(Sum(qs), 0)
        exp == Coalesce(Sum({t \in qs : t.type = "expense"}), 0)
    IN  [incomes |-> inc, expenses |-> exp, balance |-> inc - exp]

StatsOf(qs) ==
    LET inc == Coalesce(Sum({t \in qs : t.type = "income"}), 0)
        exp == Coalesce(Sum({t \in qs : t.type = "expense"}), 0)
    IN  [incomes |-> inc, expenses |-> exp, balance |-> inc - exp]

\* StatsAPIView.get: result[c] holds incomes_c, expenses_c, balance_c
StatsAPIView(q) ==
    /\ log' = StatsRecord(q, [c \in Currencies |->
                                StatsOf({t \in Filtered(q) : t.currency = c})])
    /\ UNCHANGED <<backend, userVars, inflight, txnVars, ledgerVars, warehouseVars>>

-----------------------------------------------------------------------------
(* Warehouse *)

\* the ids item creation may hand out where one item is enough
ItemIds == {1}

\* and where a request has to leave another item alone
ItemPair == {1, 2}

\* request bodies: integers for quantity, decimals (units of 0.005) for quantity_kg
ItemRequests ==
    {[malformed |-> FALSE, name |-> "a", quantity |-> a[1], quantity_kg |-> a[2]] :
        a \in {<<0, 0>>, <<10, 0>>, <<10, 2>>, <<-1, 0>>}}
    \cup {[malformed |-> FALSE, name |-> "", quantity |-> 0, quantity_kg |-> 0],
          [malformed |-> TRUE, name |-> "a", quantity |-> 0, quantity_kg |-> 0]}

MovementAmounts == {<<0, 0>>, <<-1, 2>>, <<5, 0>>, <<15, 0>>, <<0, 1>>, <<0, 2>>, <<5, -2>>}

MovementRequests ==
    {[malformed |-> FALSE, item_id |-> 1, type |-> t, quantity |-> a[1], quantity_kg |-> a[2]] :
        t \in {"in", "out"}, a \in MovementAmounts}
    \cup {[malformed |-> FALSE, item_id |-> i, type |-> "in", quantity |-> 5, quantity_kg |-> 0] :
        i \in {0, 2}}
    \cup {[malformed |-> FALSE, item_id |-> 1, type |-> t, quantity |-> 5, quantity_kg |-> 0] :
        t \in {"", "move"}}
    \cup {[malformed |-> TRUE, item_id |-> 1, type |-> "in", quantity |-> 5, quantity_kg |-> 0]}

\* item.save(): quantity_kg goes through the DecimalField column
SaveItem(item) ==
    [item EXCEPT !.quantity_kg = Quantize(item.quantity_kg)]

\* CreateWarehouseItemAPIView.post
CreateWarehouseItemStatus(staff, malformed, name, quantity) ==
    IF ~staff THEN 403
    ELSE IF malformed THEN 400
    ELSE IF name = "" THEN 400
    ELSE IF ~PositiveIntegerOk(quantity) THEN 400
    ELSE 200

CreateWarehouseItemAPIView(staff, malformed, name, quantity, quantity_kg) ==
    LET status == CreateWarehouseItemStatus(staff, malformed, name, quantity)
        req == [name |-> name, quantity |-> quantity, quantity_kg |-> quantity_kg]
    IN  /\ IF status = 200
           THEN /\ items' = [i \in DOMAIN items \cup {nextItemId} |->
                                IF i = nextItemId
                                THEN SaveItem([name |-> name, description |-> "",
                                               quantity |-> quantity,
                                               quantity_kg |-> quantity_kg])
                                ELSE items[i]]
                /\ nextItemId' = nextItemId + 1
                /\ log' = LogRecord("CreateItem", 200, nextItemId, req, NoRow, NoRow)
           ELSE /\ UNCHANGED <<items, nextItemId>>
                /\ log' = Failed("CreateItem", status)
        /\ UNCHANGED <<backend, userVars, inflight, txnVars, ledgerVars, movements, nextMovementId>>

\* WarehouseMovementAPIView.post, lines 1006-1012: the update of the loaded item
MovementApplyNoClamp(item, type, quantity, quantity_kg) ==
    IF type = "in"
    THEN [item EXCEPT !.quantity = item.quantity + quantity,
                      !.quantity_kg = item.quantity_kg + quantity_kg]
    ELSE [item EXCEPT !.quantity = item.quantity - quantity,
                      !.quantity_kg = item.quantity_kg - quantity_kg]

MovementApply(item, type, quantity, quantity_kg) ==
    IF type = "in"
    THEN [item EXCEPT !.quantity = item.quantity + quantity,
                      !.quantity_kg = item.quantity_kg + quantity_kg]
    ELSE [item EXCEPT !.quantity = Max(0, item.quantity - quantity),
                      !.quantity_kg = Max(0, item.quantity_kg - quantity_kg)]

\* WarehouseMovementAPIView.post: the checks in the order of the handler
WarehouseMovementStatusNoValidation(staff, malformed, item_id, type, quantity, quantity_kg) ==
    IF ~staff THEN 403
    ELSE IF malformed THEN 400
    ELSE IF item_id \notin DOMAIN items THEN 404
    ELSE IF ~PositiveIntegerOk(quantity) THEN 400
    ELSE 200

WarehouseMovementStatus(staff, malformed, item_id, type, quantity, quantity_kg) ==
    IF ~staff THEN 403
    ELSE IF malformed THEN 400
    ELSE IF item_id = 0 \/ type = "" \/ (quantity <= 0 /\ quantity_kg <= 0) THEN 400
    ELSE IF type \notin {"in", "out"} THEN 400
    ELSE IF item_id \notin DOMAIN items THEN 404
    ELSE IF ~PositiveIntegerOk(quantity) THEN 400   \* WarehouseMovement.objects.create raises
    ELSE 200

\* the row WarehouseMovement.objects.create stores
NewMovement(id, item_id, type, quantity, quantity_kg) ==
    [id |-> id, item |-> item_id, type |-> type,
     quantity |-> quantity, quantity_kg |-> Quantize(quantity_kg)]

WarehouseMovementAPIView(staff, malformed, item_id, type, quantity, quantity_kg) ==
    LET status == WarehouseMovementStatus(staff, malformed, item_id, type, quantity, quantity_kg)
        req == [item_id |-> item_id, type |-> type,
                quantity |-> quantity, quantity_kg |-> quantity_kg]
    IN  /\ status = 200 => nextMovementId <= MaxMovements
        /\ IF status = 200
           THEN /\ movements' = movements \cup
                       {NewMovement(nextMovementId, item_id, type, quantity, quantity_kg)}
                /\ nextMovementId' = nextMovementId + 1
                /\ items' = [items EXCEPT ![item_id] =
                       SaveItem(MovementApply(items[item_id], type, quantity, quantity_kg))]
                /\ log' = LogRecord("AddMovement", 200, nextMovementId, req, items[item_id], NoRow)
           ELSE /\ UNCHANGED <<items, movements, nextMovementId>>
                /\ log' = Failed("AddMovement", status)
        /\ UNCHANGED <<backend, userVars, inflight, txnVars, ledgerVars, nextItemId>>

\* DeleteWarehouseMovementAPIView.post, lines 1048-1057: the reversal on the loaded item
MovementReverseInUnclamped(item, m) ==
    IF m.type = "in"
    THEN [item EXCEPT !.quantity = item.quantity - m.quantity,
                      !.quantity_kg = item.quantity_kg - m.quantity_kg]
    ELSE [item EXCEPT !.quantity = Max(0, item.quantity + m.quantity),
                      !.quantity_kg = Max(0, item.quantity_kg + m.quantity_kg)]

\* a reversal that subtracts whatever the type of the movement
MovementReverseAlwaysSubtract(item, m) ==
    [item EXCEPT !.quantity = Max(0, item.quantity - m.quantity),
                 !.quantity_kg = Max(0, item.quantity_kg - m.quantity_kg)]

MovementReverse(item, m) ==
    LET q  == IF m.type = "in" THEN item.quantity - m.quantity
                               ELSE item.quantity + m.quantity
        kg == IF m.type = "in" THEN item.quantity_kg - m.quantity_kg
                               ELSE item.quantity_kg + m.quantity_kg
    IN  [item EXCEPT !.quantity = Max(0, q), !.quantity_kg = Max(0, kg)]

MovementById(id) == CHOOSE m \in movements : m.id = id

DeleteWarehouseMovementStatus(staff, movement_id) ==
    IF ~staff THEN 403
    ELSE IF \A m \in movements : m.id # movement_id THEN 404
    ELSE 200

DeleteWarehouseMovementAPIView(staff, movement_id) ==
    LET status == DeleteWarehouseMovementStatus(staff, movement_id)
    IN  /\ IF status = 200
           THEN LET m == MovementById(movement_id)
                IN  /\ items' = [items EXCEPT ![m.item] = SaveItem(MovementReverse(items[m.item], m))]
                    /\ movements' = movements \ {m}
                    /\ log' = LogRecord("DeleteMovement", 200, movement_id, m, items[m.item],
                                        IF log.op = "AddMovement" /\ log.status = 200 /\ log.id = movement_id
                                        THEN log ELSE NoRow)
           ELSE /\ UNCHANGED <<items, movements>>
                /\ log' = Failed("DeleteMovement", status)
        /\ UNCHANGED <<backend, userVars, inflight, txnVars, ledgerVars, nextItemId, nextMovementId>>


-----------------------------------------------------------------------------
(* Monthly ledger *)

\* one Employee; its entries are keyed by the month
EmployeeIds == {1}
Months == {1, 2}

EmployeeRequests == {[first_name |-> n] : n \in {"", "a"}}

EntryRequests ==
    {[malformed |-> FALSE, employee_id |-> e, month |-> m] : e \in {1, 2}, m \in Months}
    \cup {[malformed |-> TRUE, employee_id |-> 1, month |-> 1]}

\* request bodies: integer quantity, decimal price_per_unit and amount in
\* units of 0.005.  Products and payments are posted to the first entry.
ProductAmounts == {<<1, 1>>, <<1, 2>>, <<0, 2>>, <<-1, 2>>}

ProductRequests ==
    {[malformed |-> FALSE, entry_id |-> 1, quantity |-> a[1], price_per_unit |-> a[2]] :
        a \in ProductAmounts}
    \cup {[malformed |-> FALSE, entry_id |-> 3, quantity |-> 1, price_per_unit |-> 2],
          [malformed |-> TRUE, entry_id |-> 1, quantity |-> 1, price_per_unit |-> 2]}

PaymentRequests ==
    {[malformed |-> FALSE, entry_id |-> 1, amount |-> a] : a \in {1, 2}}
    \cup {[malformed |-> FALSE, entry_id |-> 3, amount |-> 2],
          [malformed |-> TRUE, entry_id |-> 1, amount |-> 2]}

\* the ledger rows a request can touch, kept in the log of CreateEntry
Ledger == [entries |-> entries, products |-> products, payments |-> payments]

EntryById(id) == CHOOSE e \in entries : e.id = id
EntryExists(id) == \E e \in entries : e.id = id

\* entry.save() with a new balance: balance goes through the DecimalField column
SaveBalance(e, balance) == [e EXCEPT !.balance = Quantize(balance)]

\* CreateEmployeeAPIView.post: first_name is a NOT NULL column
CreateEmployeeAPIView(first_name) ==
    /\ first_name # "" => nextEmployeeId \in EmployeeIds
    /\ IF first_name # ""
       THEN /\ employees' = employees \cup {nextEmployeeId}
            /\ nextEmployeeId' = nextEmployeeId + 1
            /\ log' = LogRecord("CreateEmployee", 200, nextEmployeeId, NoRow, NoRow, NoRow)
       ELSE /\ UNCHANGED <<employees, nextEmployeeId>>
            /\ log' = Failed("CreateEmployee", 400)
    /\ UNCHANGED <<backend, userVars, inflight, txnVars, warehouseVars, entries, products, payments,
                   nextEntryId, nextProductId, nextPaymentId>>

\* CreateMonthlyEntryAPIView.post
CreateMonthlyEntryStatusNoLookup(malformed, employee_id, month) ==
    IF malformed THEN 400
    ELSE IF employee_id \notin employees THEN 400
    ELSE 200

CreateMonthlyEntryStatus(malformed, employee_id, month) ==
    IF malformed THEN 400
    ELSE IF \E e \in entries : e.employee = employee_id /\ e.month = month THEN 400
    ELSE IF employee_id \notin employees THEN 400    \* foreign key: the insert raises
    ELSE 200

CreateMonthlyEntryAPIView(malformed, employee_id, month) ==
    LET status == CreateMonthlyEntryStatus(malformed, employee_id, month)
        req == [malformed |-> malformed, employee_id |-> employee_id, month |-> month]
    IN  /\ IF status = 200
           THEN /\ entries' = entries \cup
                      {[id |-> nextEntryId, employee |-> employee_id, month |-> month, balance |-> 0]}
                /\ nextEntryId' = nextEntryId + 1
                /\ log' = LogRecord("CreateEntry", 200, nextEntryId, req, Ledger, NoRow)
           ELSE /\ UNCHANGED <<entries, nextEntryId>>
                /\ log' = LogRecord("CreateEntry", status, 0, req, Ledger, NoRow)
        /\ UNCHANGED <<backend, userVars, inflight, txnVars, warehouseVars, employees, products, payments,
                       nextEmployeeId, nextProductId, nextPaymentId>>

\* AddProductAPIView.post
AddProductStatus(malformed, entry_id, quantity) ==
    IF malformed THEN 400
    ELSE IF ~EntryExists(entry_id) THEN 400
    ELSE IF ~PositiveIntegerOk(quantity) THEN 400   \* MonthlyProduct.objects.create raises
    ELSE 200

\* the row MonthlyProduct.objects.create stores
NewProduct(id, entry_id, quantity, price_per_unit) ==
    [id |-> id, entry |-> entry_id, quantity |-> quantity,
     price_per_unit |-> Quantize(price_per_unit),
     total_amount |-> Quantize(quantity * price_per_unit)]

AddProductAPIView(malformed, entry_id, quantity, price_per_unit) ==
    LET status == AddProductStatus(malformed, entry_id, quantity)
        req == [entry_id |-> entry_id, quantity |-> quantity, price_per_unit |-> price_per_unit]
    IN  /\ status = 200 => nextProductId <= MaxProducts
        /\ IF status = 200
           THEN LET e == EntryById(entry_id)
                IN  /\ products' = products \cup
                           {NewProduct(nextProductId, entry_id, quantity, price_per_unit)}
                    /\ nextProductId' = nextProductId + 1
                    /\ entries' = (entries \ {e}) \cup
                           {SaveBalance(e, e.balance + quantity * price_per_unit)}
                    /\ log' = LogRecord("AddProduct", 200, nextProductId, req, e, NoRow)
           ELSE /\ UNCHANGED <<entries, products, nextProductId>>
                /\ log' = Failed("AddProduct", status)
        /\ UNCHANGED <<backend, userVars, inflight, txnVars, warehouseVars, employees, payments,
                       nextEmployeeId, nextEntryId, nextPaymentId>>

\* DeleteProductAPIView.post
DeleteProductAPIView(product_id) ==
    IF \E p \in products : p.id = product_id
    THEN LET p == CHOOSE p \in products : p.id = product_id
             e == EntryById(p.entry)
         IN  /\ entries' = (entries \ {e}) \cup {SaveBalance(e, e.balance - p.total_amount)}
             /\ products' = products \ {p}
             /\ log' = LogRecord("DeleteProduct", 200, product_id, p, e, NoRow)
             /\ UNCHANGED <<backend, userVars, inflight, txnVars, warehouseVars, employees, payments,
                            nextEmployeeId, nextEntryId, nextProductId, nextPaymentId>>
    ELSE /\ log' = Failed("DeleteProduct", 404)
         /\ UNCHANGED <<backend, userVars, inflight, txnVars, warehouseVars, ledgerVars>>

\* AddPaymentAPIView.post
AddPaymentStatus(malformed, entry_id) ==
    IF malformed THEN 400
    ELSE IF ~EntryExists(entry_id) THEN 400
    ELSE 200

\* the row MonthlyPayment.objects.create stores
NewPayment(id, entry_id, amount) ==
    [id |-> id, entry |-> entry_id, amount |-> Quantize(amount)]

AddPaymentAPIView(malformed, entry_id, amount) ==
    LET status == AddPaymentStatus(malformed, entry_id)
        req == [entry_id |-> entry_id, amount |-> amount]
    IN  /\ status = 200 => nextPaymentId <= MaxPayments
        /\ IF status = 200
           THEN LET e == EntryById(entry_id)
                IN  /\ payments' = payments \cup {NewPayment(nextPaymentId, entry_id, amount)}
                    /\ nextPaymentId' = nextPaymentId + 1
                    /\ entries' = (entries \ {e}) \cup {SaveBalance(e, e.balance - amount)}
                    /\ log' = LogRecord("AddPayment", 200, nextPaymentId, req, e, NoRow)
           ELSE /\ UNCHANGED <<entries, payments, nextPaymentId>>
                /\ log' = Failed("AddPayment", status)
        /\ UNCHANGED <<backend, userVars, inflight, txnVars, warehouseVars, employees, products,
                       nextEmployeeId, nextEntryId, nextProductId>>

\* DeletePaymentAPIView.post
DeletePaymentAPIView(payment_id) ==
    IF \E p \in payments : p.id = payment_id
    THEN LET p == CHOOSE p \in payments : p.id = payment_id
             e == EntryById(p.entry)
         IN  /\ entries' = (entries \ {e}) \cup {SaveBalance(e, e.balance + p.amount)}
             /\ payments' = payments \ {p}
             /\ log' = LogRecord("DeletePayment", 200, payment_id, p, e, NoRow)
             /\ UNCHANGED <<backend, userVars, inflight, txnVars, warehouseVars, employees, products,
                            nextEmployeeId, nextEntryId, nextProductId, nextPaymentId>>
    ELSE /\ log' = Failed("DeletePayment", 404)
         /\ UNCHANGED <<backend, userVars, inflight, txnVars, warehouseVars, ledgerVars>>

\* MonthlyView.get_context_data: get_or_create of the entry of the current
\* month for every active employee (every employee of the model is active);
\* month is the first day of the month of the request.  `created' are the
\* employees for which get_or_create inserts a row.
CreatedEveryTime(month) == employees

Created(month) ==
    {emp \in employees : ~\E e \in entries : e.employee = emp /\ e.month = month}

MonthlyView(month) ==
    LET created == Created(month)
        newId(emp) == nextEntryId + Cardinality({x \in created : x < emp})
        monthly_entries ==
            [emp \in employees |->
                IF emp \in created THEN newId(emp)
                ELSE (CHOOSE e \in entries : e.employee = emp /\ e.month = month).id]
    IN  /\ entries' = entries \cup
              {[id |-> newId(emp), employee |-> emp, month |-> month, balance |-> 0] :
                  emp \in created}
        /\ nextEntryId' = nextEntryId + Cardinality(created)
        /\ log' = ViewRecord("MonthlyView", 200, [month |-> month], Ledger, monthly_entries)
        /\ UNCHANGED <<backend, userVars, inflight, txnVars, warehouseVars, employees,
                       products, payments, nextEmployeeId, nextProductId, nextPaymentId>>


-----------------------------------------------------------------------------
(* Users *)

MaxUsers == 2          \* User ids handed out in a run

\* request bodies of CreateUserAPIView: an absent key is absent from the record
UserBodies ==
    {[username |-> n] : n \in {"a", "b"}}
    \cup {[username |-> n, is_staff |-> f] : n \in {"a", "b"}, f \in BOOLEAN}
    \cup {[is_staff |-> TRUE]}

\* request bodies of UserDetailAPIView.post
UserUpdates == {[is_staff |-> TRUE], [is_staff |-> FALSE], [is_active |-> FALSE]}

\* the record of a request to a user endpoint: staff is request.user.is_staff
UserRecord(op, status, id, staff, data) ==
    LogRecord(op, status, id, [staff |-> staff, data |-> data], users, NoRow)

\* CreateUserAPIView.post: the handler never reads request.user.is_staff
CreateUserStatus(malformed, data) ==
    IF malformed THEN 400
    ELSE IF \E u \in users : u.username = Get(data, "username", "") THEN 400
    ELSE IF "username" \notin DOMAIN data THEN 400   \* create_user raises ValueError
    ELSE 200

CreateUserAPIView(staff, malformed, data) ==
    LET status == CreateUserStatus(malformed, data)
    IN  /\ status = 200 => nextUserId <= MaxUsers
        /\ IF status = 200
           THEN /\ users' = users \cup
                      {[id |-> nextUserId, username |-> data.username,
                        is_staff |-> Get(data, "is_staff", FALSE),
                        is_active |-> Get(data, "is_active", TRUE)]}
                /\ nextUserId' = nextUserId + 1
                /\ log' = UserRecord("CreateUser", 200, nextUserId, staff, data)
           ELSE /\ UNCHANGED <<users, nextUserId>>
                /\ log' = UserRecord("CreateUser", status, 0, staff, NoRow)
        /\ UNCHANGED <<backend, inflight, txnVars, ledgerVars, warehouseVars>>

\* UserDetailAPIView.post
UserDetailAPIView(staff, malformed, user_id, data) ==
    LET found == \E u \in users : u.id = user_id
        user == CHOOSE u \in users : u.id = user_id
        status == IF malformed THEN 400 ELSE IF ~found THEN 404 ELSE 200
    IN  /\ IF status = 200
           THEN /\ users' = (users \ {user}) \cup
                      {[user EXCEPT !.is_staff = Get(data, "is_staff", user.is_staff),
                                    !.is_active = Get(data, "is_active", user.is_active)]}
                /\ log' = UserRecord("UpdateUser", 200, user_id, staff, data)
           ELSE /\ UNCHANGED users
                /\ log' = UserRecord("UpdateUser", status, 0, staff, NoRow)
        /\ UNCHANGED <<backend, inflight, txnVars, ledgerVars, warehouseVars, nextUserId>>

\* DeleteUserAPIView.post
DeleteUserAPIView(staff, user_id) ==
    LET found == \E u \in users : u.id = user_id
        status == IF ~found THEN 404 ELSE 200
    IN  /\ IF status = 200
           THEN /\ users' = {u \in users : u.id # user_id}
                /\ log' = UserRecord("DeleteUser", 200, user_id, staff, NoRow)
           ELSE /\ UNCHANGED users
                /\ log' = UserRecord("DeleteUser", status, 0, staff, NoRow)
        /\ UNCHANGED <<backend, inflight, txnVars, ledgerVars, warehouseVars, nextUserId>>

-----------------------------------------------------------------------------
(* The remaining write handlers and the read handlers *)

\* DeleteEmployeeAPIView.post
DeleteEmployeeStatusNoLookup(staff, employee_id) == IF ~staff THEN 403 ELSE 200

DeleteEmployeeStatus(staff, employee_id) ==
    IF ~staff THEN 403
    ELSE IF employee_id \notin employees THEN 404
    ELSE 200

\* employee.delete() takes the employee's entries and their products and
\* payments along (on_delete=CASCADE)
DeleteEmployeeAPIView(staff, employee_id) ==
    LET status == DeleteEmployeeStatus(staff, employee_id)
        gone == {e.id : e \in {e \in entries : e.employee = employee_id}}
    IN  /\ IF status = 200
           THEN /\ employees' = employees \ {employee_id}
                /\ entries' = {e \in entries : e.id \notin gone}
                /\ products' = {p \in products : p.entry \notin gone}
                /\ payments' = {p \in payments : p.entry \notin gone}
                /\ log' = LogRecord("DeleteEmployee", 200, employee_id, NoRow, NoRow, NoRow)
           ELSE /\ UNCHANGED <<employees, entries, products, payments>>
                /\ log' = Failed("DeleteEmployee", status)
        /\ UNCHANGED <<backend, userVars, inflight, txnVars, warehouseVars,
                       nextEmployeeId, nextEntryId, nextProductId, nextPaymentId>>

\* request bodies of UpdateWarehouseItemAPIView: an absent key is absent; a
\* quantity that is a text int() does not read is carried as quantity_text
ItemUpdateBodies ==
    {[name |-> "b"], [description |-> "d", quantity_kg |-> -2],
     [quantity |-> 3, quantity_kg |-> 1]}

InvalidItemUpdateBodies ==
    {[name |-> "b", quantity |-> -1], [name |-> "b", quantity_text |-> "x"]}

ItemUpdates == {[quantity |-> 3], [quantity |-> 7, quantity_kg |-> 2], [quantity |-> -1]}

\* UpdateWarehouseItemAPIView.post: the item is looked up before the body is parsed
UpdateWarehouseItemStatusOpen(staff, malformed, item_id, data) ==
    IF item_id \notin DOMAIN items THEN 404
    ELSE IF malformed THEN 400
    ELSE IF "quantity_text" \in DOMAIN data THEN 400
    ELSE IF ~PositiveIntegerOk(Get(data, "quantity", 0)) THEN 400
    ELSE 200

UpdateWarehouseItemStatus(staff, malformed, item_id, data) ==
    IF ~staff THEN 403
    ELSE IF item_id \notin DOMAIN items THEN 404
    ELSE IF malformed THEN 400
    ELSE IF "quantity_text" \in DOMAIN data THEN 400                \* int() raises
    ELSE IF ~PositiveIntegerOk(Get(data, "quantity", 0)) THEN 400   \* item.save() raises
    ELSE 200

\* lines 1122-1129: only the keys of the body are assigned; `replaced' is
\* what a full replace would store
ReplacedItem(item, data) ==
    [name |-> Get(data, "name", ""),
     description |-> Get(data, "description", ""),
     quantity |-> Get(data, "quantity", 0),
     quantity_kg |-> Get(data, "quantity_kg", 0)]

UpdatedItem(item, data) ==
    [name |-> Get(data, "name", item.name),
     description |-> Get(data, "description", item.description),
     quantity |-> Get(data, "quantity", item.quantity),
     quantity_kg |-> Get(data, "quantity_kg", item.quantity_kg)]

UpdateWarehouseItemAPIView(staff, malformed, item_id, data) ==
    LET status == UpdateWarehouseItemStatus(staff, malformed, item_id, data)
    IN  /\ IF status = 200
           THEN /\ items' = [items EXCEPT ![item_id] =
                      SaveItem(UpdatedItem(items[item_id], data))]
                /\ log' = LogRecord("UpdateItem", 200, item_id, data, items[item_id], NoRow)
           ELSE /\ UNCHANGED items
                /\ log' = LogRecord("UpdateItem", status, item_id, data, NoRow, NoRow)
        /\ UNCHANGED <<backend, userVars, inflight, txnVars, ledgerVars,
                       movements, nextItemId, nextMovementId>>

\* DeleteWarehouseItemAPIView.post: item.delete() takes the item's movements
\* along (on_delete=CASCADE)
DeleteWarehouseItemStatus(staff, item_id) ==
    IF ~staff THEN 403
    ELSE IF item_id \notin DOMAIN items THEN 404
    ELSE 200

DeleteWarehouseItemAPIView(staff, item_id) ==
    LET status == DeleteWarehouseItemStatus(staff, item_id)
    IN  /\ IF status = 200
           THEN /\ items' = [i \in DOMAIN items \ {item_id} |-> items[i]]
                /\ movements' = {m \in movements : m.item # item_id}
                /\ log' = LogRecord("DeleteItem", 200, item_id, NoRow, NoRow, NoRow)
           ELSE /\ UNCHANGED <<items, movements>>
                /\ log' = Failed("DeleteItem", status)
        /\ UNCHANGED <<backend, userVars, inflight, txnVars, ledgerVars,
                       nextItemId, nextMovementId>>

\* WarehouseItemListAPIView.get
WarehouseItemListAPIView(staff) ==
    /\ log' = IF ~staff
              THEN ViewRecord("ItemList", 403, NoRow, NoRow, NoRow)
              ELSE ViewRecord("ItemList", 200, NoRow, NoRow,
                              [items |-> items, movements |-> movements])
    /\ UNCHANGED <<backend, userVars, inflight, txnVars, ledgerVars, warehouseVars>>

\* WarehouseView: UserPassesTestMixin with test_func = user.is_staff answers
\* a logged-in user who fails the test with 403
WarehouseView(staff) ==
    /\ log' = IF ~staff
              THEN ViewRecord("WarehouseView", 403, NoRow, NoRow, NoRow)
              ELSE ViewRecord("WarehouseView", 200, NoRow, NoRow,
                              [items |-> items, movements |-> movements])
    /\ UNCHANGED <<backend, userVars, inflight, txnVars, ledgerVars, warehouseVars>>

\* MonthlyEntryDetailAPIView.get: the entry with its products and payments
MonthlyEntryDetailAPIView(entry_id) ==
    /\ log' = IF ~EntryExists(entry_id)
              THEN ViewRecord("EntryDetail", 404, [entry_id |-> entry_id], NoRow, NoRow)
              ELSE ViewRecord("EntryDetail", 200, [entry_id |-> entry_id], NoRow,
                              [balance |-> EntryById(entry_id).balance,
                               products |-> {p \in products : p.entry = entry_id},
                               payments |-> {p \in payments : p.entry = entry_id}])
    /\ UNCHANGED <<backend, userVars, inflight, txnVars, ledgerVars, warehouseVars>>

\* rows created so far, over all tables
TotalRows ==
    (nextMethodId - 1) + (nextTransactionId - 1) + (nextEmployeeId - 1)
    + (nextEntryId - 1) + (nextProductId - 1) + (nextPaymentId - 1)
    + (nextItemId - 1) + (nextMovementId - 1)

-----------------------------------------------------------------------------
(* Requests that overlap.  No handler opens a database transaction, so every *)
(* ORM call (get, create, save, delete) is a step of its own, and a worker   *)
(* keeps the model instances it has loaded between its steps.                *)

\* rows the overlapping add requests have created so far
Writes == (nextProductId - 1) + (nextPaymentId - 1) + (nextMovementId - 1)

Running(w, op, pc) == inflight[w].op = op /\ inflight[w].pc = pc

AllIdle == \A w \in Workers : inflight[w] = Idle

\* entry.save(): UPDATE of the row by id with the fields of the loaded
\* instance; `atomic' is what an update relative to the stored row would write
SaveEntryAtomic(entry, delta) ==
    {IF e.id = entry.id THEN SaveBalance(e, e.balance + delta) ELSE e : e \in entries}

SaveEntry(entry, delta) ==
    {IF e.id = entry.id THEN SaveBalance(entry, entry.balance + delta) ELSE e : e \in entries}

\* AddProductAPIView.post, line 706: entry = MonthlyEntry.objects.get(id=entry_id)
AddProductGet(w, entry_id, quantity, price_per_unit) ==
    /\ inflight[w] = Idle
    /\ Writes < MaxWrites
    /\ IF AddProductStatus(FALSE, entry_id, quantity) = 200
       THEN /\ inflight' = [inflight EXCEPT ![w] =
                   [op |-> "AddProduct", pc |-> "create", entry |-> EntryById(entry_id),
                    req |-> [id |-> 0, entry_id |-> entry_id, quantity |-> quantity,
                             price_per_unit |-> price_per_unit]]]
            /\ UNCHANGED log
       ELSE /\ log' = Failed("AddProduct", 400)
            /\ UNCHANGED inflight
    /\ UNCHANGED <<backend, userVars, txnVars, warehouseVars, ledgerVars>>

\* lines 710-716: MonthlyProduct.objects.create
AddProductCreate(w) ==
    /\ Running(w, "AddProduct", "create")
    /\ LET r == inflight[w].req
       IN  products' = products \cup
               {NewProduct(nextProductId, r.entry_id, r.quantity, r.price_per_unit)}
    /\ nextProductId' = nextProductId + 1
    /\ inflight' = [inflight EXCEPT ![w].pc = "save", ![w].req.id = nextProductId]
    /\ UNCHANGED <<backend, userVars, txnVars, warehouseVars, employees, entries, payments,
                   nextEmployeeId, nextEntryId, nextPaymentId, log>>

\* lines 718-719: entry.balance += total_amount; entry.save()
AddProductSave(w) ==
    /\ Running(w, "AddProduct", "save")
    /\ LET r == inflight[w].req
       IN  /\ entries' = SaveEntry(inflight[w].entry, r.quantity * r.price_per_unit)
           /\ log' = LogRecord("AddProduct", 200, r.id, r, inflight[w].entry, NoRow)
    /\ inflight' = [inflight EXCEPT ![w] = Idle]
    /\ UNCHANGED <<backend, userVars, txnVars, warehouseVars, employees, products, payments,
                   nextEmployeeId, nextEntryId, nextProductId, nextPaymentId>>

\* AddPaymentAPIView.post, line 781: entry = MonthlyEntry.objects.get(id=entry_id)
AddPaymentGet(w, entry_id, amount) ==
    /\ inflight[w] = Idle
    /\ Writes < MaxWrites
    /\ IF AddPaymentStatus(FALSE, entry_id) = 200
       THEN /\ inflight' = [inflight EXCEPT ![w] =
                   [op |-> "AddPayment", pc |-> "create", entry |-> EntryById(entry_id),
                    req |-> [id |-> 0, entry_id |-> entry_id, amount |-> amount]]]
            /\ UNCHANGED log
       ELSE /\ log' = Failed("AddPayment", 400)
            /\ UNCHANGED inflight
    /\ UNCHANGED <<backend, userVars, txnVars, warehouseVars, ledgerVars>>

\* lines 783-788: MonthlyPayment.objects.create
AddPaymentCreate(w) ==
    /\ Running(w, "AddPayment", "create")
    /\ payments' = payments \cup
           {NewPayment(nextPaymentId, inflight[w].req.entry_id, inflight[w].req.amount)}
    /\ nextPaymentId' = nextPaymentId + 1
    /\ inflight' = [inflight EXCEPT ![w].pc = "save", ![w].req.id = nextPaymentId]
    /\ UNCHANGED <<backend, userVars, txnVars, warehouseVars, employees, entries, products,
                   nextEmployeeId, nextEntryId, nextProductId, log>>

\* lines 791-792: entry.balance -= amount; entry.save()
AddPaymentSave(w) ==
    /\ Running(w, "AddPayment", "save")
    /\ LET r == inflight[w].req
       IN  /\ entries' = SaveEntry(inflight[w].entry, 0 - r.amount)
           /\ log' = LogRecord("AddPayment", 200, r.id, r, inflight[w].entry, NoRow)
    /\ inflight' = [inflight EXCEPT ![w] = Idle]
    /\ UNCHANGED <<backend, userVars, txnVars, warehouseVars, employees, products, payments,
                   nextEmployeeId, nextEntryId, nextProductId, nextPaymentId>>

\* DeleteProductAPIView.post, lines 746-747: the product and its entry are loaded
DeleteProductGet(w, product_id) ==
    /\ inflight[w] = Idle
    /\ IF \E p \in products : p.id = product_id
       THEN LET p == CHOOSE p \in products : p.id = product_id
            IN  /\ inflight' = [inflight EXCEPT ![w] =
                       [op |-> "DeleteProduct", pc |-> "save", entry |-> EntryById(p.entry),
                        req |-> p]]
                /\ UNCHANGED log
       ELSE /\ log' = Failed("DeleteProduct", 404)
            /\ UNCHANGED inflight
    /\ UNCHANGED <<backend, userVars, txnVars, warehouseVars, ledgerVars>>

\* lines 750-751: entry.balance -= product.total_amount; entry.save()
DeleteProductSave(w) ==
    /\ Running(w, "DeleteProduct", "save")
    /\ entries' = SaveEntry(inflight[w].entry, 0 - inflight[w].req.total_amount)
    /\ inflight' = [inflight EXCEPT ![w].pc = "delete"]
    /\ UNCHANGED <<backend, userVars, txnVars, warehouseVars, employees, products, payments,
                   nextEmployeeId, nextEntryId, nextProductId, nextPaymentId, log>>

\* line 753: product.delete()
DeleteProductDelete(w) ==
    /\ Running(w, "DeleteProduct", "delete")
    /\ products' = {p \in products : p.id # inflight[w].req.id}
    /\ log' = LogRecord("DeleteProduct", 200, inflight[w].req.id, inflight[w].req,
                        inflight[w].entry, NoRow)
    /\ inflight' = [inflight EXCEPT ![w] = Idle]
    /\ UNCHANGED <<backend, userVars, txnVars, warehouseVars, employees, entries, payments,
                   nextEmployeeId, nextEntryId, nextProductId, nextPaymentId>>

\* DeletePaymentAPIView.post, lines 814-815: the payment and its entry are loaded
DeletePaymentGet(w, payment_id) ==
    /\ inflight[w] = Idle
    /\ IF \E p \in payments : p.id = payment_id
       THEN LET p == CHOOSE p \in payments : p.id = payment_id
            IN  /\ inflight' = [inflight EXCEPT ![w] =
                       [op |-> "DeletePayment", pc |-> "save", entry |-> EntryById(p.entry),
                        req |-> p]]
                /\ UNCHANGED log
       ELSE /\ log' = Failed("DeletePayment", 404)
            /\ UNCHANGED inflight
    /\ UNCHANGED <<backend, userVars, txnVars, warehouseVars, ledgerVars>>

\* lines 818-819: entry.balance += payment.amount; entry.save()
DeletePaymentSave(w) ==
    /\ Running(w, "DeletePayment", "save")
    /\ entries' = SaveEntry(inflight[w].entry, inflight[w].req.amount)
    /\ inflight' = [inflight EXCEPT ![w].pc = "delete"]
    /\ UNCHANGED <<backend, userVars, txnVars, warehouseVars, employees, products, payments,
                   nextEmployeeId, nextEntryId, nextProductId, nextPaymentId, log>>

\* line 821: payment.delete()
DeletePaymentDelete(w) ==
    /\ Running(w, "DeletePayment", "delete")
    /\ payments' = {p \in payments : p.id # inflight[w].req.id}
    /\ log' = LogRecord("DeletePayment", 200, inflight[w].req.id, inflight[w].req,
                        inflight[w].entry, NoRow)
    /\ inflight' = [inflight EXCEPT ![w] = Idle]
    /\ UNCHANGED <<backend, userVars, txnVars, warehouseVars, employees, entries, products,
                   nextEmployeeId, nextEntryId, nextProductId, nextPaymentId>>

\* WarehouseMovementAPIView.post of a staff user, lines 984-994: the checks
\* and item = WarehouseItem.objects.get(id=item_id)
AddMovementGet(w, item_id, type, quantity, quantity_kg) ==
    LET status == WarehouseMovementStatus(TRUE, FALSE, item_id, type, quantity, quantity_kg)
    IN  /\ inflight[w] = Idle
        /\ Writes < MaxWrites
        /\ IF status = 200
           THEN /\ inflight' = [inflight EXCEPT ![w] =
                       [op |-> "AddMovement", pc |-> "create", item |-> items[item_id],
                        req |-> [id |-> 0, item_id |-> item_id, type |-> type,
                                 quantity |-> quantity, quantity_kg |-> quantity_kg]]]
                /\ UNCHANGED log
           ELSE /\ log' = Failed("AddMovement", status)
                /\ UNCHANGED inflight
        /\ UNCHANGED <<backend, userVars, txnVars, warehouseVars, ledgerVars>>

\* lines 997-1004: WarehouseMovement.objects.create
AddMovementCreate(w) ==
    /\ Running(w, "AddMovement", "create")
    /\ LET r == inflight[w].req
       IN  movements' = movements \cup
               {NewMovement(nextMovementId, r.item_id, r.type, r.quantity, r.quantity_kg)}
    /\ nextMovementId' = nextMovementId + 1
    /\ inflight' = [inflight EXCEPT ![w].pc = "save", ![w].req.id = nextMovementId]
    /\ UNCHANGED <<backend, userVars, txnVars, ledgerVars, items, nextItemId, log>>

\* lines 1006-1014: the loaded item is updated and saved; `atomic' is what an
\* update relative to the stored row would write
SaveMovedItemAtomic(item, r) == SaveItem(MovementApply(items[r.item_id], r.type, r.quantity, r.quantity_kg))

SaveMovedItem(item, r) == SaveItem(MovementApply(item, r.type, r.quantity, r.quantity_kg))

AddMovementSave(w) ==
    /\ Running(w, "AddMovement", "save")
    /\ LET r == inflight[w].req
       IN  /\ items' = [items EXCEPT ![r.item_id] = SaveMovedItem(inflight[w].item, r)]
           /\ log' = LogRecord("AddMovement", 200, r.id, r, inflight[w].item, NoRow)
    /\ inflight' = [inflight EXCEPT ![w] = Idle]
    /\ UNCHANGED <<backend, userVars, txnVars, ledgerVars, movements, nextItemId,
                   nextMovementId>>

\* DeleteWarehouseMovementAPIView.post of a staff user, lines 1045-1046: the
\* movement and its item are loaded
DeleteMovementGet(w, movement_id) ==
    /\ inflight[w] = Idle
    /\ IF DeleteWarehouseMovementStatus(TRUE, movement_id) = 200
       THEN LET m == MovementById(movement_id)
            IN  /\ inflight' = [inflight EXCEPT ![w] =
                       [op |-> "DeleteMovement", pc |-> "save", item |-> items[m.item],
                        req |-> m]]
                /\ UNCHANGED log
       ELSE /\ log' = Failed("DeleteMovement", 404)
            /\ UNCHANGED inflight
    /\ UNCHANGED <<backend, userVars, txnVars, warehouseVars, ledgerVars>>

\* lines 1048-1058: the reversal on the loaded item, the clamp, item.save()
DeleteMovementSave(w) ==
    /\ Running(w, "DeleteMovement", "save")
    /\ items' = [items EXCEPT ![inflight[w].req.item] =
                    SaveItem(MovementReverse(inflight[w].item, inflight[w].req))]
    /\ inflight' = [inflight EXCEPT ![w].pc = "delete"]
    /\ UNCHANGED <<backend, userVars, txnVars, ledgerVars, movements, nextItemId,
                   nextMovementId, log>>

\* line 1060: movement.delete()
DeleteMovementDelete(w) ==
    /\ Running(w, "DeleteMovement", "delete")
    /\ movements' = {m \in movements : m.id # inflight[w].req.id}
    /\ log' = LogRecord("DeleteMovement", 200, inflight[w].req.id, inflight[w].req,
                        inflight[w].item, NoRow)
    /\ inflight' = [inflight EXCEPT ![w] = Idle]
    /\ UNCHANGED <<backend, userVars, txnVars, ledgerVars, items, nextItemId,
                   nextMovementId>>

\* MonthlyEntry.Meta.unique_together: the insert of a second row for an
\* (employee, month) pair raises IntegrityError
NoUniqueTogether(employee_id, month) == FALSE

UniqueTogether(employee_id, month) ==
    \E e \in entries : e.employee = employee_id /\ e.month = month

\* CreateMonthlyEntryAPIView.post, lines 610-613: the lookup of an existing entry
CreateMonthlyEntryFilter(w, employee_id, month) ==
    /\ inflight[w] = Idle
    /\ IF CreateMonthlyEntryStatus(FALSE, employee_id, month) = 200
       THEN /\ inflight' = [inflight EXCEPT ![w] =
                   [op |-> "CreateEntry", pc |-> "create", pre |-> Ledger,
                    req |-> [malformed |-> FALSE, employee_id |-> employee_id,
                             month |-> month]]]
            /\ UNCHANGED log
       ELSE /\ log' = LogRecord("CreateEntry", 400, 0,
                                [malformed |-> FALSE, employee_id |-> employee_id,
                                 month |-> month], Ledger, NoRow)
            /\ UNCHANGED inflight
    /\ UNCHANGED <<backend, userVars, txnVars, warehouseVars, ledgerVars>>

\* lines 621-625: MonthlyEntry.objects.create; an IntegrityError is answered 400
CreateMonthlyEntryCreate(w) ==
    /\ Running(w, "CreateEntry", "create")
    /\ LET r == inflight[w].req
       IN  IF UniqueTogether(r.employee_id, r.month)
           THEN /\ log' = LogRecord("CreateEntry", 400, 0, r, inflight[w].pre, NoRow)
                /\ UNCHANGED <<entries, nextEntryId>>
           ELSE /\ entries' = entries \cup
                       {[id |-> nextEntryId, employee |-> r.employee_id, month |-> r.month,
                         balance |-> 0]}
                /\ nextEntryId' = nextEntryId + 1
                /\ log' = LogRecord("CreateEntry", 200, nextEntryId, r, inflight[w].pre, NoRow)
    /\ inflight' = [inflight EXCEPT ![w] = Idle]
    /\ UNCHANGED <<backend, userVars, txnVars, warehouseVars, employees, products, payments,
                   nextEmployeeId, nextProductId, nextPaymentId>>

\* MonthlyView.get_context_data, line 421: the active employees
MonthlyViewEmployees(w, month) ==
    /\ inflight[w] = Idle
    /\ inflight' = [inflight EXCEPT ![w] =
           [op |-> "MonthlyView", pc |-> "get", month |-> month, todo |-> employees,
            pre |-> Ledger]]
    /\ UNCHANGED <<backend, userVars, txnVars, warehouseVars, ledgerVars, log>>

\* lines 430-433, get_or_create: the get
MonthlyViewGet(w) ==
    /\ Running(w, "MonthlyView", "get")
    /\ inflight[w].todo # {}
    /\ LET emp == CHOOSE e \in inflight[w].todo : \A x \in inflight[w].todo : e <= x
       IN  inflight' = IF \E e \in entries : e.employee = emp /\ e.month = inflight[w].month
                       THEN [inflight EXCEPT ![w].todo = @ \ {emp}]
                       ELSE [inflight EXCEPT ![w].pc = "create"]
    /\ UNCHANGED <<backend, userVars, txnVars, warehouseVars, ledgerVars, log>>

\* get_or_create: the create; on IntegrityError the row that is there is
\* fetched instead
MonthlyViewCreate(w) ==
    /\ Running(w, "MonthlyView", "create")
    /\ LET emp == CHOOSE e \in inflight[w].todo : \A x \in inflight[w].todo : e <= x
       IN  IF UniqueTogether(emp, inflight[w].month)
           THEN UNCHANGED <<entries, nextEntryId>>
           ELSE /\ entries' = entries \cup
                       {[id |-> nextEntryId, employee |-> emp, month |-> inflight[w].month,
                         balance |-> 0]}
                /\ nextEntryId' = nextEntryId + 1
    /\ inflight' = [inflight EXCEPT ![w].pc = "get",
                       ![w].todo = @ \ {CHOOSE e \in @ : \A x \in @ : e <= x}]
    /\ UNCHANGED <<backend, userVars, txnVars, warehouseVars, employees, products, payments,
                   nextEmployeeId, nextProductId, nextPaymentId, log>>

\* lines 436-437: the page is rendered
MonthlyViewRender(w) ==
    /\ Running(w, "MonthlyView", "get")
    /\ inflight[w].todo = {}
    /\ log' = ViewRecord("MonthlyView", 200, [month |-> inflight[w].month],
                         inflight[w].pre, NoRow)
    /\ inflight' = [inflight EXCEPT ![w] = Idle]
    /\ UNCHANGED <<backend, userVars, txnVars, warehouseVars, ledgerVars>>

-----------------------------------------------------------------------------
(* Initial state: an empty database *)

Init ==
    /\ backend \in Backends
    /\ methods = {}
    /\ transactions = {}
    /\ nextMethodId = 1
    /\ nextTransactionId = 1
    /\ employees = {}
    /\ entries = {}
    /\ products = {}
    /\ payments = {}
    /\ nextEmployeeId = 1
    /\ nextEntryId = 1
    /\ nextProductId = 1
    /\ nextPaymentId = 1
    /\ items = <<>>
    /\ movements = {}
    /\ nextItemId = 1
    /\ nextMovementId = 1
    /\ users = {}
    /\ nextUserId = 1
    /\ inflight = [w \in Workers |-> Idle]
    /\ log = NoRequest

NextWarehouse ==
    \/ \E staff \in BOOLEAN, r \in ItemRequests :
          /\ CreateWarehouseItemStatus(staff, r.malformed, r.name, r.quantity) = 200
                => nextItemId \in ItemIds
          /\ CreateWarehouseItemAPIView(staff, r.malformed, r.name, r.quantity, r.quantity_kg)
    \/ \E staff \in BOOLEAN, r \in MovementRequests :
          WarehouseMovementAPIView(staff, r.malformed, r.item_id, r.type, r.quantity, r.quantity_kg)
    \/ \E staff \in BOOLEAN, movement_id \in 1..(MaxMovements + 1) :
          DeleteWarehouseMovementAPIView(staff, movement_id)

\* a request of a non-staff user and a request whose body does not parse
\* are refused whatever the body says
NextTransactions ==
    \/ PaymentMethodAdmin
    \/ \E data \in TransactionBodies : CreateTransactionAPIView(TRUE, FALSE, data)
    \/ CreateTransactionAPIView(TRUE, TRUE, [type |-> "income"])
    \/ \E malformed \in BOOLEAN, data \in TransactionBodies :
          CreateTransactionAPIView(FALSE, malformed, data)
    \/ \E transaction_id \in 1..(MaxTransactions + 1), data \in TransactionUpdates :
          TransactionDetailAPIView(TRUE, FALSE, transaction_id, data)
    \/ \E r \in {<<FALSE, FALSE>>, <<TRUE, TRUE>>} :
          TransactionDetailAPIView(r[1], r[2], 1, [type |-> "income"])
    \/ \E staff \in BOOLEAN, transaction_id \in 1..(MaxTransactions + 1) :
          DeleteTransactionAPIView(staff, transaction_id)
    \/ \E q \in StatsQueries : StatsAPIView(q)

\* no decimal column is read or written by these handlers, so one backend
\* stands for all
InitTransactions == Init /\ backend = "sqlite"

SpecTransactions == InitTransactions /\ [][NextTransactions]_vars

NextUsers ==
    \/ \E staff \in BOOLEAN, malformed \in BOOLEAN, data \in UserBodies :
          CreateUserAPIView(staff, malformed, data)
    \/ \E staff \in BOOLEAN, malformed \in BOOLEAN, user_id \in 1..(MaxUsers + 1),
          data \in UserUpdates :
          UserDetailAPIView(staff, malformed, user_id, data)
    \/ \E staff \in BOOLEAN, user_id \in 1..(MaxUsers + 1) : DeleteUserAPIView(staff, user_id)

\* no decimal column is read or written by these handlers
SpecUsers == InitTransactions /\ [][NextUsers]_vars

\* the whole site, one request body per handler
NextSite ==
    \/ TotalRows < MaxRows /\ PaymentMethodAdmin
    \/ \E staff \in BOOLEAN :
          /\ staff => TotalRows < MaxRows
          /\ CreateTransactionAPIView(staff, FALSE,
                [type |-> "income", currency |-> "usd", amount |-> 2, method |-> 1, date |-> 1])
    \/ \E staff \in BOOLEAN, transaction_id \in 1..2 :
          TransactionDetailAPIView(staff, FALSE, transaction_id, [type |-> "expense"])
    \/ \E staff \in BOOLEAN, transaction_id \in 1..2 :
          DeleteTransactionAPIView(staff, transaction_id)
    \/ TotalRows < MaxRows /\ CreateEmployeeAPIView("a")
    \/ \E staff \in BOOLEAN, employee_id \in 1..2 : DeleteEmployeeAPIView(staff, employee_id)
    \/ TotalRows < MaxRows /\ CreateMonthlyEntryAPIView(FALSE, 1, 1)
    \/ TotalRows < MaxRows /\ AddProductAPIView(FALSE, 1, 1, 2)
    \/ \E product_id \in 1..2 : DeleteProductAPIView(product_id)
    \/ TotalRows < MaxRows /\ AddPaymentAPIView(FALSE, 1, 2)
    \/ \E payment_id \in 1..2 : DeletePaymentAPIView(payment_id)
    \/ \E entry_id \in 1..2 : MonthlyEntryDetailAPIView(entry_id)
    \/ \E staff \in BOOLEAN :
          /\ staff => TotalRows < MaxRows
          /\ staff => nextItemId \in ItemIds
          /\ CreateWarehouseItemAPIView(staff, FALSE, "a", 10, 0)
    \/ \E staff \in BOOLEAN, item_id \in 1..2, data \in ItemUpdates :
          UpdateWarehouseItemAPIView(staff, FALSE, item_id, data)
    \/ \E staff \in BOOLEAN, item_id \in 1..2 : DeleteWarehouseItemAPIView(staff, item_id)
    \/ \E staff \in BOOLEAN :
          /\ staff => TotalRows < MaxRows
          /\ WarehouseMovementAPIView(staff, FALSE, 1, "out", 5, 0)
    \/ \E staff \in BOOLEAN, movement_id \in 1..2 :
          DeleteWarehouseMovementAPIView(staff, movement_id)
    \/ \E staff \in BOOLEAN : WarehouseItemListAPIView(staff)
    \/ \E staff \in BOOLEAN : WarehouseView(staff)

\* every amount of these requests is a whole number of cents, so nothing is
\* rounded and one backend stands for all
SpecSite == InitTransactions /\ [][NextSite]_vars

\* overlapping requests on one entry and one item; the employee, the entry
\* and the item are created by requests that run alone
NextConcurrent ==
    \/ CreateEmployeeAPIView("a")
    \/ CreateMonthlyEntryAPIView(FALSE, 1, 1)
    \/ nextItemId \in ItemIds /\ CreateWarehouseItemAPIView(TRUE, FALSE, "a", 10, 0)
    \/ MonthlyEntryDetailAPIView(1)
    \/ \E w \in Workers :
          \* workers are interchangeable: a request goes to the first idle one
          /\ \A v \in Workers : v < w => inflight[v] # Idle
          /\ \/ AddProductGet(w, 1, 1, 2)
             \/ AddPaymentGet(w, 1, 2)
             \/ DeleteProductGet(w, 1)
             \/ DeletePaymentGet(w, 1)
             \/ AddMovementGet(w, 1, "in", 5, 0)
    \/ \E w \in Workers :
          \/ AddProductCreate(w)
          \/ AddProductSave(w)
          \/ AddPaymentCreate(w)
          \/ AddPaymentSave(w)
          \/ DeleteProductSave(w)
          \/ DeleteProductDelete(w)
          \/ DeletePaymentSave(w)
          \/ DeletePaymentDelete(w)
          \/ AddMovementCreate(w)
          \/ AddMovementSave(w)

\* every amount of these requests is a whole number of cents, so nothing is
\* rounded and one backend stands for all
SpecConcurrent == InitTransactions /\ [][NextConcurrent]_vars

\* staff requests on two items: CreateItem, UpdateItem, AddMovement and
\* DeleteMovement
NextItems ==
    \/ \E r \in {<<"a", 10, 4>>, <<"c", 0, -2>>} :
          /\ nextItemId \in ItemPair
          /\ CreateWarehouseItemAPIView(TRUE, FALSE, r[1], r[2], r[3])
    \/ \E item_id \in ItemPair, data \in ItemUpdateBodies :
          UpdateWarehouseItemAPIView(TRUE, FALSE, item_id, data)
    \/ \E data \in InvalidItemUpdateBodies : UpdateWarehouseItemAPIView(TRUE, FALSE, 1, data)
    \/ UpdateWarehouseItemAPIView(TRUE, FALSE, 3, [name |-> "b"])
    \/ UpdateWarehouseItemAPIView(TRUE, TRUE, 1, [quantity |-> 3])
    \/ WarehouseMovementAPIView(TRUE, FALSE, 1, "in", 5, 0)
    \/ \E movement_id \in 1..MaxMovements : DeleteWarehouseMovementAPIView(TRUE, movement_id)

SpecItems == Init /\ [][NextItems]_vars

\* overlapping CreateEntry requests and visits of the monthly page
NextEntries ==
    \/ \E first_name \in {"a", "b"} : CreateEmployeeAPIView(first_name)
    \/ \E w \in Workers :
          \/ \E employee_id \in 1..2, month \in Months :
                CreateMonthlyEntryFilter(w, employee_id, month)
          \/ CreateMonthlyEntryCreate(w)
          \/ \E month \in Months : MonthlyViewEmployees(w, month)
          \/ MonthlyViewGet(w)
          \/ MonthlyViewCreate(w)
          \/ MonthlyViewRender(w)

SpecEntries == InitTransactions /\ [][NextEntries]_vars

\* overlapping delete requests on the rows of one entry; the rows are added
\* by requests that run alone
NextDeletes ==
    \/ CreateEmployeeAPIView("a")
    \/ CreateMonthlyEntryAPIView(FALSE, 1, 1)
    \/ AllIdle /\ Writes < MaxWrites /\ AddProductAPIView(FALSE, 1, 1, 2)
    \/ AllIdle /\ Writes < MaxWrites /\ AddPaymentAPIView(FALSE, 1, 2)
    \/ \E w \in Workers :
          \/ \E product_id \in 1..MaxProducts : DeleteProductGet(w, product_id)
          \/ DeleteProductSave(w)
          \/ DeleteProductDelete(w)
          \/ \E payment_id \in 1..MaxPayments : DeletePaymentGet(w, payment_id)
          \/ DeletePaymentSave(w)
          \/ DeletePaymentDelete(w)

SpecDeletes == InitTransactions /\ [][NextDeletes]_vars

\* overlapping AddMovement and DeleteMovement requests of staff users on one
\* item, with amounts that are not negative
NextMovements ==
    \/ nextItemId \in ItemIds /\ CreateWarehouseItemAPIView(TRUE, FALSE, "a", 10, 2)
    \/ \E w \in Workers :
          \/ \E r \in {<<"in", 5, 0>>, <<"out", 15, 4>>} :
                AddMovementGet(w, 1, r[1], r[2], r[3])
          \/ AddMovementCreate(w)
          \/ AddMovementSave(w)
          \/ \E movement_id \in 1..MaxMovements : DeleteMovementGet(w, movement_id)
          \/ DeleteMovementSave(w)
          \/ DeleteMovementDelete(w)

SpecMovements == InitTransactions /\ [][NextMovements]_vars

SpecWarehouse == Init /\ [][NextWarehouse]_vars

NextLedger ==
    \/ \E r \in EmployeeRequests : CreateEmployeeAPIView(r.first_name)
    \/ \E r \in EntryRequests : CreateMonthlyEntryAPIView(r.malformed, r.employee_id, r.month)
    \/ \E r \in ProductRequests :
          AddProductAPIView(r.malformed, r.entry_id, r.quantity, r.price_per_unit)
    \/ \E product_id \in 1..(MaxProducts + 1) : DeleteProductAPIView(product_id)
    \/ \E r \in PaymentRequests : AddPaymentAPIView(r.malformed, r.entry_id, r.amount)
    \/ \E payment_id \in 1..(MaxPayments + 1) : DeletePaymentAPIView(payment_id)
    \/ \E month \in Months : MonthlyView(month)

SpecLedger == Init /\ [][NextLedger]_vars

-----------------------------------------------------------------------------
(* Properties of the warehouse *)

Accepted(op) == log.op = op /\ log.status = 200

\* the item the logged movement request worked on, as it is now
LoggedItem == items[IF log.op = "AddMovement" THEN log.req.item_id ELSE log.req.item]

\* a successful DeleteMovement that directly follows the AddMovement of its row
DeletedRightAfterAdd == Accepted("DeleteMovement") /\ "op" \in DOMAIN log.undo

\* |a - b| <= 1 and a is a two-place value: a is b rounded to the cent
RoundedToCent(a, b) == a % 2 = 0 /\ a - b \in {-1, 0, 1} /\ (b % 2 = 0 => a = b)

\* C2: an accepted AddMovement or DeleteMovement on an item whose quantity
\* and quantity_kg are >= 0 leaves both >= 0, whatever the sign of the
\* request's quantity fields.
C2_NeverNegative ==
    ((Accepted("AddMovement") \/ Accepted("DeleteMovement"))
        /\ log.pre.quantity >= 0 /\ log.pre.quantity_kg >= 0)
    => (LoggedItem.quantity >= 0 /\ LoggedItem.quantity_kg >= 0)

\* C3: AddMovement(m) directly followed by DeleteMovement(m) restores the
\* item's quantity and quantity_kg to their values before the add, for every
\* 'in' movement and every 'out' movement that does not exceed the on-hand
\* amounts.
C3_AddDeleteRestores ==
    (DeletedRightAfterAdd
        /\ (log.undo.req.type = "in"
            \/ (log.undo.req.quantity <= log.undo.pre.quantity
                /\ log.undo.req.quantity_kg <= log.undo.pre.quantity_kg)))
    => LoggedItem = log.undo.pre

\* C4: from quantity 10, AddMovement(out, 15) leaves the item at 0 and stores
\* a movement of quantity 15; deleting that movement next leaves the item
\* at 15.
C4_ClampThenDelete ==
    /\ (Accepted("AddMovement") /\ log.req.type = "out" /\ log.req.quantity = 15
            /\ log.pre.quantity = 10)
       => (LoggedItem.quantity = 0
           /\ \E m \in movements : m.id = log.id /\ m.quantity = 15)
    /\ (DeletedRightAfterAdd /\ log.undo.req.type = "out" /\ log.undo.req.quantity = 15
            /\ log.undo.pre.quantity = 10)
       => LoggedItem.quantity = 15

C4_Witness ==
    /\ DeletedRightAfterAdd
    /\ log.undo.req.type = "out" /\ log.undo.req.quantity = 15
    /\ log.undo.pre.quantity = 10
    /\ log.pre.quantity = 0
    /\ log.req.quantity = 15
    /\ LoggedItem.quantity = 15

\* C5 as stated: deleting an 'in' movement subtracts its quantities from the
\* item with no clamp at zero.
C5_InReversalUnclamped ==
    (Accepted("DeleteMovement") /\ log.req.type = "in")
    => /\ LoggedItem.quantity = log.pre.quantity - log.req.quantity
       /\ LoggedItem.quantity_kg = log.pre.quantity_kg - log.req.quantity_kg

\* C5 amended: deleting an 'in' movement subtracts its quantities from the
\* item, deleting an 'out' movement adds them back, and in both cases the
\* result is clamped at zero.
C5_ReversalClamped ==
    Accepted("DeleteMovement")
    => LET sign == IF log.req.type = "in" THEN -1 ELSE 1
       IN  /\ LoggedItem.quantity = Max(0, log.pre.quantity + sign * log.req.quantity)
           /\ LoggedItem.quantity_kg = Max(0, log.pre.quantity_kg + sign * log.req.quantity_kg)

C5_Witness ==
    /\ Accepted("DeleteMovement") /\ log.req.type = "in"
    /\ log.pre.quantity < log.req.quantity
    /\ LoggedItem.quantity = 0

-----------------------------------------------------------------------------
(* Properties of the monthly ledger *)

RECURSIVE SumTotalAmount(_)
SumTotalAmount(S) ==
    IF S = {} THEN 0
    ELSE LET p == CHOOSE p \in S : TRUE IN p.total_amount + SumTotalAmount(S \ {p})

RECURSIVE SumAmount(_)
SumAmount(S) ==
    IF S = {} THEN 0
    ELSE LET p == CHOOSE p \in S : TRUE IN p.amount + SumAmount(S \ {p})

\* C1: after every AddProduct, DeleteProduct, AddPayment and DeletePayment
\* request on an entry created with balance 0, the entry's balance is the sum
\* of total_amount over its remaining products minus the sum of amount over
\* its remaining payments.
C1_BalanceIsSum ==
    \A e \in entries :
        e.balance = SumTotalAmount({p \in products : p.entry = e.id})
                    - SumAmount({p \in payments : p.entry = e.id})

PairExists(l, employee_id, month) ==
    \E e \in l.entries : e.employee = employee_id /\ e.month = month

\* C10: CreateEntry for an (employee, month) pair that has an entry returns
\* an error and leaves entries, products and payments as they were;
\* CreateEntry for a pair (of an existing employee) that has none creates
\* exactly one entry, for that pair, with balance 0, and changes no other row.
C10_CreateEntry ==
    (log.op = "CreateEntry" /\ ~log.req.malformed)
    => /\ PairExists(log.pre, log.req.employee_id, log.req.month)
            => (log.status = 400 /\ Ledger = log.pre)
       /\ (~PairExists(log.pre, log.req.employee_id, log.req.month)
                /\ log.req.employee_id \in employees)
            => /\ log.status = 200
               /\ \E e \in entries :
                    /\ e \notin log.pre.entries
                    /\ e.id = log.id
                    /\ e.employee = log.req.employee_id /\ e.month = log.req.month
                    /\ e.balance = 0
                    /\ entries = log.pre.entries \cup {e}
               /\ products = log.pre.products /\ payments = log.pre.payments

\* a second CreateEntry for a pair whose entry carries a product and a balance
C10_Witness ==
    /\ log.op = "CreateEntry" /\ log.status = 400 /\ ~log.req.malformed
    /\ \E e \in entries :
          /\ e.employee = log.req.employee_id /\ e.month = log.req.month
          /\ e.balance # 0
          /\ \E p \in products : p.entry = e.id
    /\ Cardinality(entries) = 2

\* C11: the get-or-create of the current-month entry is idempotent: once an
\* employee has an entry for a month, every later request keeps that entry's
\* id, and every later MonthlyView of that month returns that id and leaves
\* the entry's balance, products and payments as they were, whatever
\* AddProduct, AddPayment and delete requests come in between.
C11_GetOrCreateIdempotent ==
    [][\A e \in entries :
          /\ \E f \in entries' : f.id = e.id /\ f.employee = e.employee /\ f.month = e.month
          /\ (log'.op = "MonthlyView" /\ log'.req.month = e.month)
                => /\ log'.body[e.employee] = e.id
                   /\ e \in entries'
                   /\ {p \in products' : p.entry = e.id} = {p \in products : p.entry = e.id}
                   /\ {p \in payments' : p.entry = e.id} = {p \in payments : p.entry = e.id}]_vars

\* a MonthlyView that finds the entry it created earlier, now with a product,
\* a payment and a balance
C11_Witness ==
    /\ log.op = "MonthlyView"
    /\ \E e \in log.pre.entries :
          /\ e.month = log.req.month
          /\ log.body[e.employee] = e.id
          /\ e.balance # 0
          /\ \E p \in products : p.entry = e.id
          /\ \E p \in payments : p.entry = e.id

\* C18: an accepted AddProduct has quantity > 0, stores total_amount =
\* quantity * price_per_unit and raises the balance by exactly that amount
\* (a request with quantity <= 0 fails).
C18_AddProductValidated ==
    Accepted("AddProduct") =>
        LET p == CHOOSE p \in products : p.id = log.id
            total == log.req.quantity * log.req.price_per_unit
        IN  /\ log.req.quantity > 0
            /\ p.total_amount = total
            /\ EntryById(p.entry).balance = log.pre.balance + total

-----------------------------------------------------------------------------
(* Properties of the transaction statistics *)

\* the row t passes the filters of the query q: an absent parameter and a
\* currency that is none of the three filter nothing
Matches(t, q) ==
    /\ q.type # "" => t.type = q.type
    /\ q.method # 0 => t.method = q.method
    /\ q.date_from # 0 => t.date >= q.date_from
    /\ q.date_to # 0 => t.date <= q.date_to
    /\ q.currency \in Currencies => t.currency = q.currency

Zero == [incomes |-> 0, expenses |-> 0, balance |-> 0]

\* C7: whatever the stored transactions and the filters, the stats result
\* holds for each currency x of uzs, usd, afn the numbers incomes_x,
\* expenses_x and balance_x (0 when no row matches, never null), where
\* incomes_x and expenses_x are the sums of amount over the filtered rows of
\* currency x with type income and expense, and balance_x = incomes_x -
\* expenses_x.
C7_StatsPerCurrency ==
    log.op = "Stats" =>
        /\ DOMAIN log.body = Currencies
        /\ \A x \in Currencies :
              LET rows == {t \in transactions : Matches(t, log.req) /\ t.currency = x}
                  r == log.body[x]
              IN  /\ r.incomes \in Nat
                  /\ r.expenses \in Nat
                  /\ r.balance \in Int
                  /\ r.incomes = Total({t \in rows : t.type = "income"})
                  /\ r.expenses = Total({t \in rows : t.type = "expense"})
                  /\ r.balance = r.incomes - r.expenses

\* a query with a date filter that keeps an income and drops another row of
\* the same currency, while no row of usd is stored
C7_Witness ==
    /\ log.op = "Stats"
    /\ log.req.date_from = 2
    /\ log.req.type = ""
    /\ log.body["uzs"].incomes > 0
    /\ \E t \in transactions : t.currency = "uzs" /\ t.date = 1 /\ t.amount > 0
    /\ log.body["usd"] = Zero

\* C8: when the query carries an explicit currency filter c, the totals of
\* bucket c are the totals over the rows of currency c under the remaining
\* filters, and incomes, expenses and balance of the two other buckets are 0.
C8_CurrencyFilter ==
    (log.op = "Stats" /\ log.req.currency \in Currencies) =>
        LET c == log.req.currency
            rest == [log.req EXCEPT !.currency = ""]
            rows == {t \in transactions : Matches(t, rest) /\ t.currency = c}
            inc == Total({t \in rows : t.type = "income"})
            exp == Total({t \in rows : t.type = "expense"})
        IN  /\ log.body[c] = [incomes |-> inc, expenses |-> exp, balance |-> inc - exp]
            /\ \A x \in Currencies \ {c} : log.body[x] = Zero

\* a query for usd alone while an income in uzs is stored
C8_Witness ==
    /\ log.op = "Stats"
    /\ log.req.currency = "usd"
    /\ log.req.type = ""
    /\ log.req.method = 0
    /\ log.req.date_from = 0
    /\ log.req.date_to = 0
    /\ log.body["usd"].incomes > 0
    /\ \E t \in transactions : t.currency = "uzs" /\ t.type = "income" /\ t.amount > 0
    /\ log.body["uzs"] = Zero

NoFilters == [type |-> "", method |-> 0, date_from |-> 0, date_to |-> 0, currency |-> ""]

\* C9: with no filters the stats totals account for every stored
\* transaction: for each currency x, incomes_x + expenses_x is the sum of
\* amount over all stored rows of currency x, whatever rows the create and
\* update endpoints have stored.
C9_TotalsAccountForAll ==
    (log.op = "Stats" /\ log.req = NoFilters) =>
        \A x \in Currencies :
            log.body[x].incomes + log.body[x].expenses
                = Total({t \in transactions : t.currency = x})

\* C12: a POST to /api/transaction/create/ by a user who is not staff is
\* answered 403 and leaves the stored transactions as they were, whatever
\* the request body.
C12_NonStaffCreateRefused ==
    [][(/\ log'.op = "CreateTransaction"
        /\ \E malformed \in BOOLEAN, data \in TransactionBodies :
              CreateTransactionAPIView(FALSE, malformed, data))
          => (log'.status = 403 /\ transactions' = transactions)]_vars

\* a refused create while transactions are stored and a payment method exists
C12_Witness ==
    /\ log.op = "CreateTransaction"
    /\ log.status = 403
    /\ methods # {}
    /\ transactions # {}

-----------------------------------------------------------------------------
(* Properties of the permission checks *)

UserOps == {"CreateUser", "UpdateUser", "DeleteUser"}

\* C13: a request to create, update or delete a user by a user who is not
\* staff is answered 403 and changes no user record (so no such request
\* creates a user or raises an is_staff flag).
C13_UserEndpointsStaffOnly ==
    (log.op \in UserOps /\ ~log.req.staff) => (log.status = 403 /\ users = log.pre)

\* the handlers C14 is about, as they log themselves
StaffWriteOps ==
    {"UpdateTransaction", "DeleteTransaction", "DeleteEmployee", "CreateItem",
     "UpdateItem", "DeleteItem", "AddMovement", "DeleteMovement"}

\* some request of a user who is not staff to one of these handlers takes
\* the step
NonStaffWrite ==
    \/ \E id \in 1..2 : TransactionDetailAPIView(FALSE, FALSE, id, [type |-> "expense"])
    \/ \E id \in 1..2 : DeleteTransactionAPIView(FALSE, id)
    \/ \E id \in 1..2 : DeleteEmployeeAPIView(FALSE, id)
    \/ CreateWarehouseItemAPIView(FALSE, FALSE, "a", 10, 0)
    \/ \E id \in 1..2, data \in ItemUpdates : UpdateWarehouseItemAPIView(FALSE, FALSE, id, data)
    \/ \E id \in 1..2 : DeleteWarehouseItemAPIView(FALSE, id)
    \/ WarehouseMovementAPIView(FALSE, FALSE, 1, "out", 5, 0)
    \/ \E id \in 1..2 : DeleteWarehouseMovementAPIView(FALSE, id)

\* C14: a request by a user who is not staff to update or delete a
\* transaction, delete an employee, or write to the warehouse (create, update
\* or delete an item, add or delete a movement) leaves the stored
\* transactions, employees, items and movements as they were.
C14_NonStaffWritesChangeNothing ==
    [][(log'.op \in StaffWriteOps /\ NonStaffWrite)
          => (/\ log'.status # 200
              /\ UNCHANGED <<transactions, employees, items, movements>>)]_vars

\* a refused item delete while the item and a movement are stored
C14_Witness ==
    /\ log.op = "DeleteItem"
    /\ log.status = 403
    /\ DOMAIN items # {}
    /\ movements # {}

ReadOps == {"ItemList", "WarehouseView", "EntryDetail"}

\* C15: no read endpoint, the warehouse item list included, answers a
\* logged-in user with 403.
C15_ReadsOpenToAll == log.op \in ReadOps => log.status # 403

DeleteOps ==
    {"DeleteProduct", "DeletePayment", "DeleteMovement", "DeleteTransaction",
     "DeleteEmployee", "DeleteItem"}

\* some delete request that passes the permission check and names an id with
\* no row takes the step
DeleteOfAbsentRow ==
    \E id \in 1..2 :
        \/ (\A p \in products : p.id # id) /\ DeleteProductAPIView(id)
        \/ (\A p \in payments : p.id # id) /\ DeletePaymentAPIView(id)
        \/ (\A m \in movements : m.id # id) /\ DeleteWarehouseMovementAPIView(TRUE, id)
        \/ (\A t \in transactions : t.id # id) /\ DeleteTransactionAPIView(TRUE, id)
        \/ id \notin employees /\ DeleteEmployeeAPIView(TRUE, id)
        \/ id \notin DOMAIN items /\ DeleteWarehouseItemAPIView(TRUE, id)

\* C19: a delete request (product, payment, movement, transaction, employee,
\* item) that passes the permission check and names an id with no row is
\* answered 404 and changes no stored record or running total; so a second
\* DeleteProduct or DeletePayment for an id is answered 404 and leaves the
\* balance as it was.
C19_DeleteOfAbsentRow ==
    [][(log'.op \in DeleteOps /\ DeleteOfAbsentRow)
          => (log'.status = 404 /\ UNCHANGED <<txnVars, ledgerVars, warehouseVars>>)]_vars

\* a second DeleteProduct for the id of a product that was deleted
C19_Witness ==
    /\ log.op = "DeleteProduct"
    /\ log.status = 404
    /\ nextProductId = 2
    /\ products = {}
    /\ \E e \in entries : e.id = 1 /\ e.balance = 0

\* some AddMovement request whose type is neither 'in' nor 'out', or whose
\* quantity and quantity_kg are both <= 0, takes the step
InvalidMovementRequest ==
    \E staff \in BOOLEAN, r \in MovementRequests :
        /\ ~r.malformed
        /\ r.type \notin {"in", "out"} \/ (r.quantity <= 0 /\ r.quantity_kg <= 0)
        /\ WarehouseMovementAPIView(staff, r.malformed, r.item_id, r.type,
                                    r.quantity, r.quantity_kg)

\* C20: AddMovement fails, creates no movement and leaves the item's quantity
\* and quantity_kg as they were whenever type is neither 'in' nor 'out' or
\* quantity and quantity_kg are both <= 0, whether the item exists or not.
C20_InvalidMovementRefused ==
    [][(log'.op = "AddMovement" /\ InvalidMovementRequest)
          => (log'.status # 200 /\ UNCHANGED <<items, movements, nextMovementId>>)]_vars

\* a refused AddMovement on an item that holds stock and has a movement
C20_Witness ==
    /\ log.op = "AddMovement"
    /\ log.status = 400
    /\ 1 \in DOMAIN items
    /\ items[1].quantity > 0
    /\ movements # {}

\* the change a request in flight makes to the balance of its entry
Delta(r) ==
    CASE r.op = "AddProduct" -> r.req.quantity * r.req.price_per_unit
      [] r.op = "AddPayment" -> 0 - r.req.amount
      [] r.op = "DeleteProduct" -> 0 - r.req.total_amount
      [] r.op = "DeletePayment" -> r.req.amount

Saving(w) == inflight[w].pc = "save" /\ inflight'[w].pc # "save"

\* C16: a request writes the value it read at its start plus its own change,
\* whatever was written in between: the save of a balance-changing request
\* leaves the entry's balance at the balance the request loaded plus its own
\* delta, and the save of AddMovement leaves the item's quantities at the
\* loaded quantities plus (or minus) the movement's.  With two overlapping
\* requests on one row the change of the first writer is therefore lost.
C16_LostUpdate ==
    [][\A w \in Workers :
          Saving(w) =>
             LET r == inflight[w]
             IN  IF r.op = "AddMovement"
                 THEN LET moved == MovementApply(r.item, r.req.type, r.req.quantity,
                                                 r.req.quantity_kg)
                      IN  /\ items'[r.req.item_id].quantity = moved.quantity
                          /\ items'[r.req.item_id].quantity_kg = moved.quantity_kg
                 ELSE \E e \in entries' :
                         e.id = r.entry.id /\ e.balance = r.entry.balance + Delta(r)]_vars

\* two AddMovement requests on one item have finished and the item holds the
\* change of one of them only
ItemUpdateLost ==
    /\ AllIdle
    /\ \E i \in DOMAIN items :
          /\ Cardinality({m \in movements : m.item = i /\ m.type = "in"}) = 2
          /\ items[i].quantity = 15

\* two AddProduct requests on one entry have finished, both products are
\* stored, and the balance holds the total of one of them only
C16_Witness ==
    /\ AllIdle
    /\ payments = {}
    /\ \E e \in entries :
          /\ Cardinality({p \in products : p.entry = e.id}) = 2
          /\ e.balance = 2
          /\ SumTotalAmount({p \in products : p.entry = e.id}) = 4

\* worker w runs the only request that has written to the entry since the
\* entry was last at rest: one row was ever added, it is still stored, nobody
\* else is in flight, and a delete request loaded the balance of that row
SingleWriter(w) ==
    /\ inflight[w].op \in {"AddProduct", "AddPayment", "DeleteProduct", "DeletePayment"}
    /\ \A v \in Workers \ {w} : inflight[v] = Idle
    /\ Writes = 1
    /\ Cardinality(products) + Cardinality(payments) = 1
    /\ inflight[w].op \in {"DeleteProduct", "DeletePayment"}
          => inflight[w].entry.balance = SumTotalAmount(products) - SumAmount(payments)

\* C17: while a single AddProduct, AddPayment, DeleteProduct or DeletePayment
\* request is in progress on an entry and no other request writes, the
\* balance a detail request reads is the sum of the products it lists minus
\* the sum of the payments it lists.
C17_ReaderSeesSum ==
    \A w \in Workers :
        (log.op = "EntryDetail" /\ log.status = 200 /\ SingleWriter(w))
        => log.body.balance = SumTotalAmount(log.body.products)
                              - SumAmount(log.body.payments)

\* what the column of attribute k stores for a provided value
Stored(k, v) == IF k = "quantity_kg" THEN Quantize(v) ELSE v

ItemAttributes == {"name", "description", "quantity", "quantity_kg"}

\* a body the handler cannot apply: it does not parse, or its quantity is not
\* an integer the column takes
InvalidItemUpdate(malformed, data) ==
    \/ malformed
    \/ "quantity_text" \in DOMAIN data
    \/ ("quantity" \in DOMAIN data /\ data.quantity < 0)

\* C21: an accepted UpdateItem stores, for each of name, description, quantity
\* and quantity_kg, the provided value (as its column stores it) when the key
\* is in the body and the previous value when it is not; every other item and
\* every movement stay as they were.  When the item does not exist or the body
\* is invalid the request is refused and no item and no movement changes.
C21_UpdateItemPartial ==
    [][\A item_id \in {log'.id}, data \in {log'.req}, malformed \in BOOLEAN :
          (/\ log'.op = "UpdateItem"
           /\ UpdateWarehouseItemAPIView(TRUE, malformed, item_id, data))
          => /\ movements' = movements
             /\ DOMAIN items' = DOMAIN items
             /\ \A i \in DOMAIN items \ {item_id} : items'[i] = items[i]
             /\ (item_id \notin DOMAIN items \/ InvalidItemUpdate(malformed, data))
                   => (log'.status # 200 /\ items' = items)
             /\ (item_id \in DOMAIN items /\ ~InvalidItemUpdate(malformed, data))
                   => /\ log'.status = 200
                      /\ \A k \in ItemAttributes :
                            items'[item_id][k] =
                               IF k \in DOMAIN data THEN Stored(k, data[k])
                               ELSE items[item_id][k]]_vars

\* an accepted UpdateItem with a name and no quantity, on one of two items,
\* the updated one having a movement
C21_Witness ==
    /\ Accepted("UpdateItem")
    /\ DOMAIN items = ItemPair
    /\ \E m \in movements : m.item = log.id
    /\ DOMAIN log.req = {"name"}
    /\ items[log.id].name = "b" /\ log.pre.name = "a"
    /\ items[log.id].quantity = 15 /\ log.pre.quantity = 15

\* C22: every WarehouseItem has quantity >= 0 and quantity_kg >= 0.
C22_ItemNeverNegative ==
    \A i \in DOMAIN items : items[i].quantity >= 0 /\ items[i].quantity_kg >= 0

\* C23: at most one MonthlyEntry exists for each (employee, month) pair, also
\* when CreateEntry requests and get-or-create calls of MonthlyView overlap.
C23_OneEntryPerPair ==
    \A e1 \in entries, e2 \in entries :
        (e1.employee = e2.employee /\ e1.month = e2.month) => e1.id = e2.id

\* a CreateEntry request found no entry for its pair, another request then
\* stored one, and the insert of the first was refused
C23_Witness ==
    /\ log.op = "CreateEntry" /\ log.status = 400
    /\ ~PairExists(log.pre, log.req.employee_id, log.req.month)
    /\ log.req.employee_id \in employees
    /\ Cardinality({e \in entries : e.employee = log.req.employee_id
                                    /\ e.month = log.req.month}) = 1

\* the keys of the JSON body a handler sends with an error status: the
\* handlers build {success, error} in their except Exception branch and in
\* check_staff_permission, and {error} alone in their DoesNotExist branch and
\* in their own is_staff test
ErrorBody(op, status) ==
    IF status = 400 THEN {"success", "error"}
    ELSE IF status = 403
    THEN IF op \in {"CreateTransaction", "UpdateTransaction", "DeleteTransaction"}
         THEN {"success", "error"}
         ELSE {"error"}
    ELSE {"error"}

\* the operations that answer with JSON
JsonOps ==
    {"CreateTransaction", "UpdateTransaction", "DeleteTransaction", "CreateEmployee",
     "DeleteEmployee", "CreateEntry", "AddProduct", "DeleteProduct", "AddPayment",
     "DeletePayment", "EntryDetail", "ItemList", "CreateItem", "UpdateItem", "DeleteItem",
     "AddMovement", "DeleteMovement"}

\* C24: every error response of the JSON API has a status in {400, 403, 404}
\* and a body with the keys success and error.
C24_ErrorShape ==
    (log.op \in JsonOps /\ log.status # 200)
    => /\ log.status \in {400, 403, 404}
       /\ ErrorBody(log.op, log.status) = {"success", "error"}

RECURSIVE Net(_, _)
\* sum of an attribute over movements, 'in' counted positive and 'out' negative
Net(S, k) ==
    IF S = {} THEN 0
    ELSE LET m == CHOOSE m \in S : TRUE
         IN  (IF m.type = "in" THEN m[k] ELSE 0 - m[k]) + Net(S \ {m}, k)

\* the part of an item's attribute that its remaining movements do not
\* account for: its initial value, as long as the equality of C25 holds
Offset(its, ms, i, k) == its[i][k] - Net({m \in ms : m.item = i}, k)

\* what the accepted request in the log would have left in attribute k had
\* nothing been clamped
Unclamped(l, k) ==
    IF l.op = "AddMovement"
    THEN (IF l.req.type = "in" THEN l.pre[k] + l.req[k] ELSE l.pre[k] - l.req[k])
    ELSE (IF l.req.type = "in" THEN l.pre[k] - l.req[k] ELSE l.pre[k] + l.req[k])

MovementStep ==
    /\ log'.op \in {"AddMovement", "DeleteMovement"}
    /\ log'.status = 200
    /\ log' # log

MovedItem(l) == IF l.op = "AddMovement" THEN l.req.item_id ELSE l.req.item

C26_ProductReversedOnce ==
    (/\ AllIdle
     /\ nextProductId = 2 /\ products = {}
     /\ nextPaymentId = 1)
    => \A e \in entries : e.balance = 0

\* the same for a payment: after the DeletePayment requests for the only
\* payment ever added have finished, the balance is 0 again
C26_PaymentReversedOnce ==
    (/\ AllIdle
     /\ nextPaymentId = 2 /\ payments = {}
     /\ nextProductId = 1)
    => \A e \in entries : e.balance = 0

C26_ReversedOnce == C26_ProductReversedOnce /\ C26_PaymentReversedOnce

\* C27: an accepted AddMovement of type 'in' leaves quantity and quantity_kg
\* each at or above its previous value, and one of type 'out' leaves each at
\* or below its previous value.
C27_MovementMonotone ==
    Accepted("AddMovement")
    => IF log.req.type = "in"
       THEN /\ LoggedItem.quantity >= log.pre.quantity
            /\ LoggedItem.quantity_kg >= log.pre.quantity_kg
       ELSE /\ LoggedItem.quantity <= log.pre.quantity
            /\ LoggedItem.quantity_kg <= log.pre.quantity_kg

\* C28: whatever the interleaving of AddMovement and DeleteMovement requests
\* with non-negative amounts on an item, every value of quantity and
\* quantity_kg written to the item is >= 0.
C28_WrittenNeverNegative ==
    \A i \in DOMAIN items : items[i].quantity >= 0 /\ items[i].quantity_kg >= 0

\* a DeleteMovement that overlapped another request has written a clamped
\* value: its loaded quantity minus the 'in' movement's was negative
C28_Witness ==
    /\ Accepted("DeleteMovement") /\ log.req.type = "in"
    /\ Unclamped(log, "quantity") < 0
    /\ \E w \in Workers : inflight[w] # Idle /\ inflight[w].item # log.pre
    /\ items[log.req.item].quantity = 0

=============================================================================
